---- MODULE Spec2Model ----
(***************************************************************************)
(* Model of stimapp.py: a Streamlit script whose main() is re-run on every *)
(* user interaction.  One run of main() reads the credential, builds the   *)
(* in-memory demo database (create_demo_db), and, when "Run Query" was     *)
(* clicked with a non-blank question, calls generate_sql_query once and    *)
(* executes the returned text once inside try/except.                      *)
(*                                                                         *)
(* Text is modelled as a sequence of one-character strings.  A generated   *)
(* SQL statement is abbreviated by one upper-case letter (see Execute).       *)
(***************************************************************************)
EXTENDS Integers, Sequences, FiniteSets, TLC

VARIABLES
    autocommit,  \* the installed SQLAlchemy commits DML by itself (1.x) or not (2.x)
    envKey,      \* openai.api_key, read once from the environment (line 19)
    keyInput,    \* value of the "Enter OpenAI API Key" widget
    user_query,  \* value of the question widget
    clicked,     \* st.button("Run Query") is True in this run
    pc,          \* position of the running script
    unit,        \* TRUE: generate_sql_query is called on its own, not from main()
    api_key,     \* local api_key of main() / parameter of generate_sql_query
    db,          \* the database behind the current engine
    inTxn,       \* the DBAPI connection has an open (implicit) transaction
    snap,        \* database state the open transaction rolls back to
    conns,       \* connections checked out of the current engine
    raw,         \* response.choices[0].message.content
    sql_code,    \* value returned by generate_sql_query
    df,          \* the DataFrame read by pd.read_sql
    exc,         \* exception in flight
    outcome,     \* what the run left on the page
    genCalls,    \* generation attempts in this run
    execCalls,   \* executions of generated SQL in this run
    netCalls,    \* requests sent to the generation service in this run
    runs,        \* runs of main() started so far
    tainted,     \* an earlier run left its database changed by generated SQL
    engineSaid   \* what the engine answered to the generated statement of this run

vars == <<autocommit, envKey, keyInput, user_query, clicked, pc, unit, api_key,
          db, inTxn, snap, conns, raw, sql_code, df, exc, outcome,
          genCalls, execCalls, netCalls, runs, tainted, engineSaid>>

(***************************************************************************)
(* Bounds                                                                  *)
(***************************************************************************)
MaxRuns == 5
MaxPieces == 7

(***************************************************************************)
(* Text                                                                    *)
(***************************************************************************)
\* the backtick character (written BT: the character itself cannot appear in a TLA+ string)
BT == "BT"
Whitespace == {" "}
Fence == <<BT, BT, BT>>
FenceSql == <<BT, BT, BT, "s", "q", "l">>

RECURSIVE LStrip(_)
LStrip(s) ==
    IF s = <<>> THEN <<>>
    ELSE IF Head(s) \in Whitespace THEN LStrip(Tail(s)) ELSE s

RECURSIVE RStrip(_)
RStrip(s) ==
    IF s = <<>> THEN <<>>
    ELSE IF s[Len(s)] \in Whitespace THEN RStrip(SubSeq(s, 1, Len(s) - 1)) ELSE s

\* str.strip()
Strip(s) == RStrip(LStrip(s))

StartsWith(s, p) == Len(s) >= Len(p) /\ SubSeq(s, 1, Len(p)) = p

\* str.replace(p, empty): leftmost non-overlapping occurrences, one pass
RECURSIVE Remove(_, _)
Remove(s, p) ==
    IF Len(s) < Len(p) THEN s
    ELSE IF StartsWith(s, p) THEN Remove(SubSeq(s, Len(p) + 1, Len(s)), p)
    ELSE <<Head(s)>> \o Remove(Tail(s), p)

\* a variant of the post-processing that removes only the fence-with-sql marker
PostProcess_sqlOnly(content) == Strip(Remove(Strip(content), FenceSql))

\* lines 186-189 of generate_sql_query
PostProcess(content) == Strip(Remove(Remove(Strip(content), FenceSql), Fence))

HasFence(s) == \E i \in 1..(Len(s) - 2) : SubSeq(s, i, i + 2) = Fence

\* texts built from at most MaxPieces pieces
Pieces == {<<BT>>, <<"s", "q", "l">>, <<" ">>, <<"x">>}

RECURSIVE Flatten(_)
Flatten(ps) == IF ps = <<>> THEN <<>> ELSE Head(ps) \o Flatten(Tail(ps))

Texts == UNION {{Flatten(ps) : ps \in [1..n -> Pieces]} : n \in 0..MaxPieces}

(***************************************************************************)
(* The demo database (create_demo_db) and the engine                       *)
(***************************************************************************)
Tables == {"works", "contributors", "work_contributors", "royalties"}

\* rows of works, by work_id (lines 83-90)
SeedWorks == {1, 2, 3, 4}

\* rows of royalties (lines 121-130); amount in hundredths, period by its year
SeedRoyalties ==
    { [royalty_id |-> 1001, work_id |-> 1, amount |-> 150000, year |-> 2022],
      [royalty_id |-> 1002, work_id |-> 1, amount |-> 170000, year |-> 2022],
      [royalty_id |-> 1003, work_id |-> 2, amount |-> 220000, year |-> 2022],
      [royalty_id |-> 1004, work_id |-> 3, amount |-> 180000, year |-> 2022],
      [royalty_id |-> 1005, work_id |-> 3, amount |-> 190000, year |-> 2022],
      [royalty_id |-> 1006, work_id |-> 4, amount |-> 300000, year |-> 2022] }

\* create_engine("sqlite://"): a new, empty in-memory database (line 39)
EmptyDb == [tables |-> {}, works |-> {}, royalties |-> {}]

\* the four CREATE TABLE statements (lines 43-79)
CreateTables(d) == [d EXCEPT !.tables = Tables]

\* the INSERT statements (lines 83-130); only works and royalties carry rows here
InsertSeed(d) == [d EXCEPT !.works = SeedWorks, !.royalties = SeedRoyalties]

RECURSIVE SumAmount(_)
SumAmount(rs) ==
    IF rs = {} THEN 0
    ELSE LET r == CHOOSE x \in rs : TRUE IN r.amount + SumAmount(rs \ {r})

\* SELECT work_id, SUM(amount) FROM royalties WHERE period in 2022 GROUP BY work_id
Totals2022(rs) ==
    LET in22 == {r \in rs : r.year = 2022}
    IN  { [work_id |-> w, total |-> SumAmount({r \in in22 : r.work_id = w})] :
            w \in {r.work_id : r \in in22} }

\* Statements the generation service is taken to produce, one letter each:
\*   T  total royalties per work in 2022        N  a SELECT whose filter matches nothing
\*   D  DELETE FROM royalties                   X  DROP TABLE royalties
\*   K  SELEKT * FROM works (malformed)         U  SELECT from a table that does not exist
\*   C  INSERT INTO works with work_id 1 (primary key already present in the seed)
StmtLetters == {"T", "N", "D", "X", "K", "U", "C"}

Result(status, rows, diag, newDb) ==
    [status |-> status, rows |-> rows, diag |-> diag, db |-> newDb]

\* What the SQLite engine does with a statement text on database d.
\* status: "rows" (a row-returning statement ran), "dml" / "ddl" / "empty" (a
\* statement without a result set ran), "error" (the engine raised, diag is
\* its message).
Execute(sqlText, d) ==
    IF sqlText = <<>> THEN Result("empty", {}, "", d)
    ELSE IF Len(sqlText) # 1 \/ sqlText[1] \notin StmtLetters
         THEN Result("error", {}, "syntax error", d)
    ELSE LET c == sqlText[1] IN
         CASE c = "K" -> Result("error", {}, "syntax error", d)
           [] c = "U" -> Result("error", {}, "no such table", d)
           [] c = "C" ->
                IF "works" \notin d.tables THEN Result("error", {}, "no such table", d)
                ELSE IF 1 \in d.works THEN Result("error", {}, "UNIQUE constraint failed", d)
                ELSE Result("dml", {}, "", [d EXCEPT !.works = @ \cup {1}])
           [] "royalties" \notin d.tables -> Result("error", {}, "no such table", d)
           [] c = "T" -> Result("rows", Totals2022(d.royalties), "", d)
           [] c = "N" -> Result("rows", {}, "", d)
           [] c = "D" -> Result("dml", {}, "", [d EXCEPT !.royalties = {}])
           [] c = "X" -> Result("ddl", {}, "", [d EXCEPT !.tables = @ \ {"royalties"},
                                                        !.royalties = {}])

\* pd.read_sql on a statement without a result set
NoRowsError == "This result object does not return rows"

\* The sqlite3 driver opens a transaction before DML only.  SQLAlchemy 1.x
\* commits it at once (library autocommit); SQLAlchemy 2.x leaves it open.
OpensTxn(status) == status = "dml" /\ ~autocommit

\* Connection.close(): the connection goes back to the pool, which rolls back
DbAfterRelease == IF inTxn THEN snap ELSE db

(***************************************************************************)
(* Credentials, questions, responses                                       *)
(***************************************************************************)
NoneKey == "None"
Falsy(k) == k \in {NoneKey, ""}
EnvKeys == {NoneKey, "good", "bad"}
KeyInputs == {"", "good", "bad"}
Questions == {<<>>, <<" ">>, <<"Q">>}
NoneContent == <<"None">>

Fenced(t) == FenceSql \o <<" ">> \o t \o <<" ">> \o Fence

\* responses of the generation service used when main() runs
AppResponses ==
    {<<c>> : c \in StmtLetters} \cup {Fenced(<<c>>) : c \in {"T", "K"}}
    \cup {<<>>, <<" ">>, FenceSql \o Fence, <<"T", BT, "K">>}

Page(kind, msg) == [kind |-> kind, msg |-> msg]

(***************************************************************************)
(* Initial states                                                          *)
(***************************************************************************)
NoPage == Page("", "")
NoExec == [status |-> "none", diag |-> "", rows |-> {}]

\* the first run of the script, on page load
Init ==
    /\ autocommit \in BOOLEAN
    /\ envKey \in EnvKeys
    /\ keyInput = ""
    /\ user_query = <<>>
    /\ clicked = FALSE
    /\ pc = "main_key"
    /\ unit = FALSE
    /\ api_key = NoneKey
    /\ db = EmptyDb
    /\ inTxn = FALSE
    /\ snap = EmptyDb
    /\ conns = 0
    /\ raw = <<>>
    /\ sql_code = <<>>
    /\ df = {}
    /\ exc = ""
    /\ outcome = NoPage
    /\ genCalls = 0
    /\ execCalls = 0
    /\ netCalls = 0
    /\ runs = 1
    /\ tainted = FALSE
    /\ engineSaid = NoExec

\* generate_sql_query called on its own with any api_key
InitGen ==
    /\ autocommit \in BOOLEAN
    /\ envKey = NoneKey
    /\ keyInput = ""
    /\ user_query = <<"Q">>
    /\ clicked = FALSE
    /\ pc = "gen_client"
    /\ unit = TRUE
    /\ api_key \in {NoneKey, "", "good", "bad"}
    /\ db = EmptyDb
    /\ inTxn = FALSE
    /\ snap = EmptyDb
    /\ conns = 0
    /\ raw = <<>>
    /\ sql_code = <<>>
    /\ df = {}
    /\ exc = ""
    /\ outcome = NoPage
    /\ genCalls = 0
    /\ execCalls = 0
    /\ netCalls = 0
    /\ runs = 1
    /\ tainted = FALSE
    /\ engineSaid = NoExec

(***************************************************************************)
(* The user: every interaction re-runs the script                          *)
(***************************************************************************)
Rerun ==
    /\ pc = "idle"
    /\ runs < MaxRuns
    /\ pc' = "main_key"
    /\ runs' = runs + 1
    /\ outcome' = NoPage
    /\ genCalls' = 0
    /\ execCalls' = 0
    /\ netCalls' = 0
    /\ raw' = <<>>
    /\ sql_code' = <<>>
    /\ df' = {}
    /\ exc' = ""
    /\ engineSaid' = NoExec
    /\ UNCHANGED <<autocommit, envKey, unit, api_key, db, inTxn, snap, conns, tainted>>

\* the user types into the API-key widget (shown only when no key was configured)
EditKey ==
    /\ Falsy(envKey)
    /\ \E k \in KeyInputs : k # keyInput /\ keyInput' = k
    /\ clicked' = FALSE
    /\ UNCHANGED user_query
    /\ Rerun

\* the user types into the question widget (shown only past the key check)
EditQuestion ==
    /\ outcome.kind # "warn_key"
    /\ \E q \in Questions : q # user_query /\ user_query' = q
    /\ clicked' = FALSE
    /\ UNCHANGED keyInput
    /\ Rerun

\* the user clicks "Run Query"
ClickRun ==
    /\ outcome.kind # "warn_key"
    /\ clicked' = TRUE
    /\ UNCHANGED <<keyInput, user_query>>
    /\ Rerun

(***************************************************************************)
(* main(), lines 196-206: the credential check                             *)
(***************************************************************************)
MainKey ==
    /\ pc = "main_key"
    /\ LET k == IF Falsy(envKey) THEN keyInput ELSE envKey IN
         /\ api_key' = k
         /\ IF Falsy(k)
            THEN /\ outcome' = Page("warn_key", "Please enter an OpenAI API key to continue.")
                 /\ pc' = "idle"
            ELSE /\ pc' = "boot_engine"
                 /\ UNCHANGED outcome
    /\ UNCHANGED <<autocommit, envKey, keyInput, user_query, clicked, unit, db, inTxn,
                   snap, conns, raw, sql_code, df, exc, genCalls, execCalls,
                   netCalls, runs, tainted, engineSaid>>

(***************************************************************************)
(* create_demo_db(), lines 28-132                                          *)
(***************************************************************************)
\* a variant that keeps the engine of the previous run (a cached engine)
BootEngine_cached ==
    /\ pc = "boot_engine"
    /\ IF db = EmptyDb
       THEN /\ db' = EmptyDb
            /\ pc' = "boot_connect"
       ELSE /\ pc' = "main_button"
            /\ UNCHANGED db
    /\ inTxn' = FALSE
    /\ snap' = EmptyDb
    /\ conns' = 0
    /\ UNCHANGED <<autocommit, envKey, keyInput, user_query, clicked, unit, api_key,
                   raw, sql_code, df, exc, outcome, genCalls, execCalls, netCalls,
                   runs, tainted, engineSaid>>

\* line 39: engine = create_engine("sqlite://")
BootEngine ==
    /\ pc = "boot_engine"
    /\ db' = EmptyDb
    /\ inTxn' = FALSE
    /\ snap' = EmptyDb
    /\ conns' = 0
    /\ pc' = "boot_connect"
    /\ UNCHANGED <<autocommit, envKey, keyInput, user_query, clicked, unit, api_key,
                   raw, sql_code, df, exc, outcome, genCalls, execCalls, netCalls,
                   runs, tainted, engineSaid>>

\* line 42: with engine.connect() as conn
BootConnect ==
    /\ pc = "boot_connect"
    /\ conns' = conns + 1
    /\ pc' = "boot_create"
    /\ UNCHANGED <<autocommit, envKey, keyInput, user_query, clicked, unit, api_key,
                   db, inTxn, snap, raw, sql_code, df, exc, outcome, genCalls,
                   execCalls, netCalls, runs, tainted, engineSaid>>

\* lines 43-79: the CREATE TABLE statements (DDL: no transaction is opened)
BootCreate ==
    /\ pc = "boot_create"
    /\ db' = CreateTables(db)
    /\ pc' = "boot_insert"
    /\ UNCHANGED <<autocommit, envKey, keyInput, user_query, clicked, unit, api_key,
                   inTxn, snap, conns, raw, sql_code, df, exc, outcome, genCalls,
                   execCalls, netCalls, runs, tainted, engineSaid>>

\* lines 83-130: the INSERT statements; there is no conn.commit()
BootInsert ==
    /\ pc = "boot_insert"
    /\ IF OpensTxn("dml") /\ ~inTxn
       THEN inTxn' = TRUE /\ snap' = db
       ELSE UNCHANGED <<inTxn, snap>>
    /\ db' = InsertSeed(db)
    /\ pc' = "boot_exit"
    /\ UNCHANGED <<autocommit, envKey, keyInput, user_query, clicked, unit, api_key,
                   conns, raw, sql_code, df, exc, outcome, genCalls, execCalls,
                   netCalls, runs, tainted, engineSaid>>

\* end of the with block (line 130) and return engine (line 132)
BootExit ==
    /\ pc = "boot_exit"
    /\ conns' = conns - 1
    /\ db' = DbAfterRelease
    /\ inTxn' = FALSE
    /\ snap' = EmptyDb
    /\ pc' = "main_button"
    /\ UNCHANGED <<autocommit, envKey, keyInput, user_query, clicked, unit, api_key,
                   raw, sql_code, df, exc, outcome, genCalls, execCalls, netCalls,
                   runs, tainted, engineSaid>>

(***************************************************************************)
(* main(), lines 250-255: the button and the blank-question check          *)
(***************************************************************************)
MainButton ==
    /\ pc = "main_button"
    /\ IF ~clicked
       THEN /\ outcome' = Page("page", "")
            /\ pc' = "idle"
       ELSE IF Strip(user_query) = <<>>
       THEN /\ outcome' = Page("warn_question", "Please enter a question before running the query.")
            /\ pc' = "idle"
       ELSE /\ pc' = "gen_client"
            /\ UNCHANGED outcome
    /\ UNCHANGED <<autocommit, envKey, keyInput, user_query, clicked, unit, api_key,
                   db, inTxn, snap, conns, raw, sql_code, df, exc, genCalls,
                   execCalls, netCalls, runs, tainted, engineSaid>>

(***************************************************************************)
(* generate_sql_query(), lines 139-189                                     *)
(***************************************************************************)
\* An exception raised inside generate_sql_query.  The call at line 257 is
\* outside the try block of main(), so in main() the exception leaves main().
Raise(e) ==
    IF unit
    THEN /\ pc' = "gen_raised"
         /\ exc' = e
         /\ UNCHANGED outcome
    ELSE /\ pc' = "idle"
         /\ outcome' = Page("uncaught", e)
         /\ UNCHANGED exc

\* line 140: client = OpenAI(api_key=api_key).  The function does not look at
\* api_key itself; the client constructor raises only when the key is None
\* and the environment has none either, an empty string is accepted.
GenClient ==
    /\ pc = "gen_client"
    /\ IF api_key = NoneKey
       THEN Raise("OpenAIError")
       ELSE /\ pc' = "gen_call"
            /\ UNCHANGED <<exc, outcome>>
    /\ UNCHANGED <<autocommit, envKey, keyInput, user_query, clicked, unit, api_key,
                   db, inTxn, snap, conns, raw, sql_code, df, genCalls, execCalls,
                   netCalls, runs, tainted, engineSaid>>

\* errors client.chat.completions.create can raise, by credential
CallErrors(k) ==
    CASE k = "good" -> {"APIError", "APITimeoutError"}
      [] k = "bad"  -> {"AuthenticationError"}
      [] OTHER      -> {"AuthenticationError", "APIConnectionError"}

\* lines 177-184: the one request to the generation service
GenCall ==
    /\ pc = "gen_call"
    /\ genCalls' = genCalls + 1
    /\ netCalls' = netCalls + 1
    /\ \/ /\ api_key = "good"
          /\ \E r \in (IF unit THEN Texts ELSE AppResponses) \cup {NoneContent} :
                raw' = r
          /\ pc' = "gen_post"
          /\ UNCHANGED <<exc, outcome>>
       \/ /\ \E e \in CallErrors(api_key) : Raise(e)
          /\ UNCHANGED raw
    /\ UNCHANGED <<autocommit, envKey, keyInput, user_query, clicked, unit, api_key,
                   db, inTxn, snap, conns, sql_code, df, execCalls, runs, tainted, engineSaid>>

\* lines 186-189: strip, remove the fence markers, strip, return
GenPost ==
    /\ pc = "gen_post"
    /\ IF raw = NoneContent
       THEN /\ Raise("AttributeError")
            /\ UNCHANGED sql_code
       ELSE /\ sql_code' = PostProcess(raw)
            /\ pc' = IF unit THEN "gen_returned" ELSE "exec_connect"
            /\ UNCHANGED <<exc, outcome>>
    /\ UNCHANGED <<autocommit, envKey, keyInput, user_query, clicked, unit, api_key,
                   db, inTxn, snap, conns, raw, df, genCalls, execCalls, netCalls,
                   runs, tainted, engineSaid>>

(***************************************************************************)
(* main(), lines 259-274: execution of the generated text                  *)
(***************************************************************************)
\* the database create_demo_db leaves behind, by library behaviour
FreshDb == IF autocommit THEN InsertSeed(CreateTables(EmptyDb)) ELSE CreateTables(EmptyDb)

\* lines 259-263: show the SQL, enter try, with engine.connect() as conn
ExecConnect ==
    /\ pc = "exec_connect"
    /\ conns' = conns + 1
    /\ pc' = "exec_read"
    /\ UNCHANGED <<autocommit, envKey, keyInput, user_query, clicked, unit, api_key,
                   db, inTxn, snap, raw, sql_code, df, exc, outcome, genCalls,
                   execCalls, netCalls, runs, tainted, engineSaid>>

\* line 264: df = pd.read_sql(text(sql_code), conn)
ExecRead ==
    /\ pc = "exec_read"
    /\ execCalls' = execCalls + 1
    /\ LET r == Execute(sql_code, db) IN
         /\ db' = r.db
         /\ IF OpensTxn(r.status) /\ ~inTxn
            THEN inTxn' = TRUE /\ snap' = db
            ELSE UNCHANGED <<inTxn, snap>>
         /\ df' = r.rows
         /\ exc' = CASE r.status = "rows"  -> ""
                     [] r.status = "error" -> r.diag
                     [] OTHER              -> NoRowsError
         /\ engineSaid' = [status |-> r.status, diag |-> r.diag, rows |-> r.rows]
    /\ pc' = "exec_exit"
    /\ UNCHANGED <<autocommit, envKey, keyInput, user_query, clicked, unit, api_key,
                   conns, raw, sql_code, outcome, genCalls, netCalls, runs, tainted>>

\* a variant of the with-exit that releases the connection only on success
ExecExit_leakOnError ==
    /\ pc = "exec_exit"
    /\ conns' = IF exc = "" THEN conns - 1 ELSE conns
    /\ db' = DbAfterRelease
    /\ inTxn' = FALSE
    /\ snap' = EmptyDb
    /\ tainted' = (tainted \/ db' # FreshDb)
    /\ pc' = IF exc = "" THEN "render" ELSE "handler"
    /\ UNCHANGED <<autocommit, envKey, keyInput, user_query, clicked, unit, api_key,
                   raw, sql_code, df, exc, outcome, genCalls, execCalls, netCalls,
                   runs, engineSaid>>

\* end of the with block of line 263, on the normal and on the exceptional path
ExecExit ==
    /\ pc = "exec_exit"
    /\ conns' = conns - 1
    /\ db' = DbAfterRelease
    /\ inTxn' = FALSE
    /\ snap' = EmptyDb
    /\ tainted' = (tainted \/ db' # FreshDb)
    /\ pc' = IF exc = "" THEN "render" ELSE "handler"
    /\ UNCHANGED <<autocommit, envKey, keyInput, user_query, clicked, unit, api_key,
                   raw, sql_code, df, exc, outcome, genCalls, execCalls, netCalls,
                   runs, engineSaid>>

\* a variant of the rendering without the df.empty branch
Render_noEmptyCheck ==
    /\ pc = "render"
    /\ outcome' = Page("table", "")
    /\ pc' = "idle"
    /\ UNCHANGED <<autocommit, envKey, keyInput, user_query, clicked, unit, api_key,
                   db, inTxn, snap, conns, raw, sql_code, df, exc, genCalls,
                   execCalls, netCalls, runs, tainted, engineSaid>>

\* lines 265-272: "No rows returned." or the table (and chart)
Render ==
    /\ pc = "render"
    /\ outcome' = IF df = {} THEN Page("no_rows", "No rows returned.") ELSE Page("table", "")
    /\ pc' = "idle"
    /\ UNCHANGED <<autocommit, envKey, keyInput, user_query, clicked, unit, api_key,
                   db, inTxn, snap, conns, raw, sql_code, df, exc, genCalls,
                   execCalls, netCalls, runs, tainted, engineSaid>>

\* a variant of the handler that reports a fixed message
Handler_genericMessage ==
    /\ pc = "handler"
    /\ outcome' = Page("error", "Error executing SQL")
    /\ exc' = ""
    /\ pc' = "idle"
    /\ UNCHANGED <<autocommit, envKey, keyInput, user_query, clicked, unit, api_key,
                   db, inTxn, snap, conns, raw, sql_code, df, genCalls, execCalls,
                   netCalls, runs, tainted, engineSaid>>

\* a variant of the handler that asks the generation service again
Handler_retry ==
    /\ pc = "handler"
    /\ exc' = ""
    /\ pc' = "gen_client"
    /\ UNCHANGED <<autocommit, envKey, keyInput, user_query, clicked, unit, api_key,
                   db, inTxn, snap, conns, raw, sql_code, df, outcome, genCalls,
                   execCalls, netCalls, runs, tainted, engineSaid>>

\* lines 273-274: except Exception as e: st.error(f"Error executing SQL: {e}")
Handler ==
    /\ pc = "handler"
    /\ outcome' = Page("error", exc)
    /\ exc' = ""
    /\ pc' = "idle"
    /\ UNCHANGED <<autocommit, envKey, keyInput, user_query, clicked, unit, api_key,
                   db, inTxn, snap, conns, raw, sql_code, df, genCalls, execCalls,
                   netCalls, runs, tainted, engineSaid>>

(***************************************************************************)
(* Specifications                                                          *)
(***************************************************************************)
Next ==
    \/ EditKey
    \/ EditQuestion
    \/ ClickRun
    \/ MainKey
    \/ BootEngine
    \/ BootConnect
    \/ BootCreate
    \/ BootInsert
    \/ BootExit
    \/ MainButton
    \/ GenClient
    \/ GenCall
    \/ GenPost
    \/ ExecConnect
    \/ ExecRead
    \/ ExecExit
    \/ Render
    \/ Handler

Spec == Init /\ [][Next]_vars

NextGen ==
    \/ GenClient
    \/ GenCall
    \/ GenPost

SpecGen == InitGen /\ [][NextGen]_vars

(***************************************************************************)
(* Properties                                                              *)
(***************************************************************************)
InWithBlock == pc \in {"boot_create", "boot_insert", "boot_exit", "exec_read", "exec_exit"}
AfterGeneration == pc \in {"gen_post", "exec_connect", "exec_read", "exec_exit",
                           "render", "handler"}
Executed == engineSaid.status # "none"
RunOver == pc = "idle"

\* C1: every failure of a Run Query cycle, a failed generation call included,
\* ends as a user-facing message; no exception leaves main() uncaught.
C1_AllFailuresCaught == outcome.kind # "uncaught"

\* C2: when the engine rejects the generated text, the run ends with the error
\* message carrying the engine's diagnostic, not with an uncaught exception,
\* and neither the generation nor the execution is done a second time.
C2_ExecErrorReported ==
    engineSaid.status = "error" =>
        /\ genCalls = 1
        /\ execCalls = 1
        /\ outcome.kind # "uncaught"
        /\ RunOver => outcome = Page("error", engineSaid.diag)

C2_Witness ==
    /\ RunOver
    /\ engineSaid.status = "error"
    /\ engineSaid.diag = "UNIQUE constraint failed"
    /\ outcome.kind = "error"

\* C3: a connection is checked out exactly while the script is inside one of
\* the two with-blocks; on every path out of a with-block, the exceptional
\* one included, it has been released, so the next execution gets its own.
C3_ConnectionsReleased == conns = (IF InWithBlock THEN 1 ELSE 0)

C3_Witness ==
    /\ pc = "handler"
    /\ engineSaid.status = "error"
    /\ conns = 0

\* C4: generate_sql_query called without a credential (None or empty) sends
\* no request to the generation service.
C4_NoCallWithoutCredential == Falsy(api_key) => (netCalls = 0 /\ genCalls = 0)

C6_NoFence == pc = "gen_returned" => ~HasFence(sql_code)

\* a response in which a fence appears only once the sql marker is removed
C6_Witness ==
    /\ pc = "gen_returned"
    /\ raw = <<BT, BT, BT, BT, "s", "q", "l", BT, BT>>
    /\ sql_code = <<>>

\* C7: a successful generation call yields a non-empty query; an empty one
\* never goes on to execution.
C7_NonEmptyQuery == pc \in {"exec_connect", "exec_read", "exec_exit"} => sql_code # <<>>

\* C8: a statement that ran and returned zero rows ends in "No rows returned."
\* and never in the error message; an execution that raised ends in the error
\* message and never in "No rows returned." or the table.
C8_EmptyVsError ==
    (RunOver /\ Executed) =>
        /\ (engineSaid.status = "rows" /\ engineSaid.rows = {}) => outcome.kind = "no_rows"
        /\ engineSaid.status # "rows" => outcome.kind = "error"

C8_Witness ==
    /\ RunOver
    /\ autocommit
    /\ engineSaid.status = "rows"
    /\ engineSaid.rows = {}
    /\ outcome.kind = "no_rows"

ExpectedTotals ==
    { [work_id |-> 1, total |-> 320000], [work_id |-> 2, total |-> 220000],
      [work_id |-> 3, total |-> 370000], [work_id |-> 4, total |-> 300000] }

\* C9: the totals query against the bootstrapped database returns the four
\* seeded per-work sums.
C9_SeededTotals ==
    (Executed /\ sql_code = <<"T">>) =>
        (engineSaid.status = "rows" /\ engineSaid.rows = ExpectedTotals)

====
